---- MODULE Spec2Model ----
(***************************************************************************)
(* autodocs: incremental translation of the files of a synced repository.  *)
(* Model of src/src/main.rs: target parsing, the suffix/exclude filter,    *)
(* the pass-through mirror, the hash-keyed sync loop and the metadata      *)
(* store.  Strings are sequences of one-character strings, file contents   *)
(* are sequences of bytes.                                                 *)
(***************************************************************************)
EXTENDS Integers, Sequences, FiniteSets, TLC

VARIABLES
    filter,           \* config.filter: [target, include, exclude]
    src,              \* the synced checkout: file path -> bytes
    dirs,             \* the synced checkout: its directories
    head,             \* number of the commit HEAD points at
    out,              \* the translated tree: file path -> bytes
    meta_file,        \* the metadata file on disk
    meta,             \* run: the in-memory TranslationMeta
    q,                \* run: the walk's stack of directories
    files,            \* run: the list collected by the tree walk
    suffix,           \* run: suffix tokens parsed from filter.target
    filtered_files,   \* run: the translatable files, in walk order
    idx,              \* run: position of the sync loop in filtered_files
    hash,             \* run: the hash computed for the file being translated
    translated_count, \* run: the counter of already translated files
    summary,          \* run: the counts printed at the end
    pc,               \* position of the run
    runs,             \* number of runs started so far
    edits,            \* number of upstream changes so far
    loaded,           \* history: the file list the current run loaded
    calls,            \* history: the files the backend was called for in this run
    skipped,          \* history: the files this run found in the metadata and skipped
    prev,             \* history: the previous run (did it complete, its sources,
                      \*          the file it was killed at)
    start,            \* history: the translated tree and the metadata file
                      \*          as the current run found them
    write_log         \* history: the outcome of each write_meta of the current run

vars == <<filter, src, dirs, head, out, meta_file, meta, q, files, suffix,
          filtered_files, idx, hash, translated_count, summary, pc, runs,
          edits, loaded, calls, skipped, prev, start, write_log>>

Range(s) == {s[i] : i \in DOMAIN s}

(***************************************************************************)
(* String primitives of the standard library, as the code uses them.       *)
(***************************************************************************)

\* pattern p occurs in s starting at position i
IsPrefixAt(s, p, i) ==
    /\ i + Len(p) - 1 <= Len(s)
    /\ SubSeq(s, i, i + Len(p) - 1) = p

\* str::ends_with
ends_with(s, suf) ==
    /\ Len(suf) <= Len(s)
    /\ SubSeq(s, Len(s) - Len(suf) + 1, Len(s)) = suf

\* str::contains
contains(s, p) == \E i \in 1..(Len(s) + 1) : IsPrefixAt(s, p, i)

\* str::replace for a non-empty pattern: every non-overlapping match, leftmost first
RECURSIVE replace_at(_, _, _, _)
replace_at(s, from, to, i) ==
    IF i > Len(s) THEN <<>>
    ELSE IF IsPrefixAt(s, from, i)
         THEN to \o replace_at(s, from, to, i + Len(from))
         ELSE <<s[i]>> \o replace_at(s, from, to, i + 1)

replace(s, from, to) == replace_at(s, from, to, 1)

\* str::split on a one-character separator: empty pieces are kept
RECURSIVE split_at(_, _, _, _)
split_at(s, sep, i, cur) ==
    IF i > Len(s) THEN <<cur>>
    ELSE IF s[i] = sep
         THEN <<cur>> \o split_at(s, sep, i + 1, <<>>)
         ELSE split_at(s, sep, i + 1, Append(cur, s[i]))

split(s, sep) == split_at(s, sep, 1, <<>>)

(***************************************************************************)
(* Target parsing and the filter.                                          *)
(***************************************************************************)

prase_target_suffix(target) ==
    split(replace(replace(target, <<"*">>, <<>>), <<".">>, <<>>), " ")

\* for s in &suffix { if file.ends_with(s) { include = true; break; } }
RECURSIVE suffix_loop(_, _, _)
suffix_loop(file, suf, i) ==
    IF i > Len(suf) THEN FALSE
    ELSE IF ends_with(file, suf[i]) THEN TRUE
    ELSE suffix_loop(file, suf, i + 1)

\* for e in &filter.exclude { if file.contains(e) { exclude = true; break; } }
RECURSIVE exclude_loop(_, _, _)
exclude_loop(file, excl, i) ==
    IF i > Len(excl) THEN FALSE
    ELSE IF contains(file, excl[i]) THEN TRUE
    ELSE exclude_loop(file, excl, i + 1)

\* mutant: the suffix test is a substring test
keep_file_contains(file, suf, excl) ==
    /\ \E i \in DOMAIN suf : contains(file, suf[i])
    /\ ~exclude_loop(file, excl, 1)

\* mutant: the exclude list is not consulted
keep_file_noexclude(file, suf, excl) == suffix_loop(file, suf, 1)

\* one iteration of the filter loop: is the file pushed to filtered_files
keep_file(file, suf, excl) ==
    /\ suffix_loop(file, suf, 1)
    /\ ~exclude_loop(file, excl, 1)

RECURSIVE filter_loop(_, _, _, _)
filter_loop(fs, suf, excl, i) ==
    IF i > Len(fs) THEN <<>>
    ELSE IF keep_file(fs[i], suf, excl)
         THEN <<fs[i]>> \o filter_loop(fs, suf, excl, i + 1)
         ELSE filter_loop(fs, suf, excl, i + 1)

(***************************************************************************)
(* Paths.                                                                  *)
(***************************************************************************)

\* config.repo, here "u/r.git"
repo == <<"u", "/", "r", ".", "g", "i", "t">>

\* let workspace = "./workspace";
workspace == <<".", "/", "w", "o", "r", "k", "s", "p", "a", "c", "e">>

\* repo.split("/").last().unwrap() and then .split(".").next().unwrap()
repo_name ==
    LET last == split(repo, "/")[Len(split(repo, "/"))]
    IN  split(last, ".")[1]

repo_path == workspace \o <<"/">> \o repo_name

translated_repo_path ==
    workspace \o <<"/">> \o repo_name
              \o <<"-", "t", "r", "a", "n", "s", "l", "a", "t", "e", "d">>

\* position of the last "/" of p, 0 when there is none
LastSlash(p) ==
    LET S == {i \in DOMAIN p : p[i] = "/"}
    IN  IF S = {} THEN 0 ELSE CHOOSE i \in S : \A j \in S : j <= i

\* path.rsplitn(2, "/").last(): the text before the last "/"
dir_of(p) == IF LastSlash(p) = 0 THEN p ELSE SubSeq(p, 1, LastSlash(p) - 1)

\* path.rsplitn(2, "/").next(): the text after the last "/"
filename(p) == SubSeq(p, LastSlash(p) + 1, Len(p))

\* file.replace(&repo_path, &translated_repo_path)
translated_path(f) == replace(f, repo_path, translated_repo_path)

(***************************************************************************)
(* The checkout: a fixed tree, whose files change by upstream commits.     *)
(***************************************************************************)

InRepo(rel) == repo_path \o <<"/">> \o rel

A_MD == InRepo(<<"a", ".", "m", "d">>)
D_MD == InRepo(<<"d", ".", "m", "d">>)
DRAFT == InRepo(<<"d", "r", "a", "f", "t">>)
DRAFT_C_MD == DRAFT \o <<"/", "c", ".", "m", "d">>
\* a directory "a." that holds "workspace/r": its path repeats the root's text
ADOT == DRAFT \o <<"/", "a", ".">>
ADOT_W == ADOT \o <<"/", "w", "o", "r", "k", "s", "p", "a", "c", "e">>
ADOT_W_R == ADOT_W \o <<"/", "r">>
NESTED_B_TXT == ADOT_W_R \o <<"/", "b", ".", "t", "x", "t">>
DOT_GIT == InRepo(<<".", "g", "i", "t">>)
GIT_C_MD == DOT_GIT \o <<"/", "c", ".", "m", "d">>

Dirs == {repo_path, DRAFT, ADOT, ADOT_W, ADOT_W_R, DOT_GIT}

\* the files of the work tree, which upstream commits change
WorkFiles == {A_MD, D_MD, DRAFT_C_MD, NESTED_B_TXT}

SrcFiles == WorkFiles \cup {GIT_C_MD}

\* file contents: empty, "A", "B", and the byte 0xFF, which is not UTF-8
Contents == {<<>>, <<65>>, <<66>>, <<255>>}

\* the contents upstream commits give a file
CommitContents(f) ==
    CASE f = A_MD         -> Contents
      [] f = D_MD         -> {<<>>, <<65>>, <<66>>}
      [] f = DRAFT_C_MD   -> {<<65>>, <<255>>}
      [] f = NESTED_B_TXT -> {<<65>>}

\* std::fs::read_dir(&path): the entries of a directory of the tree with the
\* directories D and the files F
read_dir(D, F, path) == {p \in D \cup F : p # path /\ dir_of(p) = path}

\* the orders in which read_dir may yield the entries
Orders(S) ==
    {o \in [1..Cardinality(S) -> S] : \A i, j \in DOMAIN o : o[i] = o[j] => i = j}

\* mutant: the text of the path ends with ".git"
is_git_dir_by_text(p) == ends_with(p, <<".", "g", "i", "t">>)

\* Path::ends_with(".git"): the last component is exactly ".git"
is_git_dir(p) == filename(p) = <<".", "g", "i", "t">>

\* one iteration of `while !q.is_empty()`: pop a directory and scan its entries
\* in the order read_dir yields them; path.is_dir() is membership in D; the
\* value is the new <<q, files>>
walk_step(D, stack, found, entries) ==
    << SubSeq(stack, 1, Len(stack) - 1)
           \o SelectSeq(entries, LAMBDA p : p \in D /\ ~is_git_dir(p)),
       found \o SelectSeq(entries, LAMBDA p : p \notin D) >>

\* the walk loop: every list `files` it can end with, over the orders of read_dir
RECURSIVE walk(_, _, _, _)
walk(D, F, stack, found) ==
    IF stack = <<>> THEN {found}
    ELSE UNION { walk(D, F, walk_step(D, stack, found, entries)[1],
                            walk_step(D, stack, found, entries)[2]) :
                 entries \in Orders(read_dir(D, F, stack[Len(stack)])) }

\* let mut q = vec![repo_path.clone()]; let mut files = vec![]; while ...
\* on the checkout of the run model, whose tree never changes
walked_files == walk(Dirs, SrcFiles, <<repo_path>>, <<>>)

(***************************************************************************)
(* Hashing, decoding, the backend and the metadata file.                   *)
(***************************************************************************)

\* format!("{:x}", sha2::Sha256::digest(bytes)) on the contents of the model
Sha256(c) ==
    CASE c = <<>>    -> "e3b0c44298fc1c149afbf4c8996fb92427ae41e4649b934ca495991b7852b855"
      [] c = <<65>>  -> "559aead08264d5795d3909718cdd05abd49572e84fe55590eef31a88a08fdffd"
      [] c = <<66>>  -> "df7e70e5021544f4834bbee64a9e3789febc4be81470df629cad6ddb03320a5c"
      [] c = <<255>> -> "a8100ae6aa1940d0b663bb31cd466142ebbdbd5187131b92d93818987832eb89"

\* std::fs::read_to_string succeeds on valid UTF-8 only (here: ASCII bytes)
is_utf8(c) == \A i \in DOMAIN c : c[i] < 128

\* mutant: no content counts as empty
is_empty_never(content) == FALSE

\* content.is_empty()
is_empty(content) == content = <<>>

\* the text the backend returns for a content: "EN:" followed by the content
agent_translate(content) == <<69, 78, 58>> \o content

\* git rev-parse HEAD, trimmed: the hash of commit n
rev_parse(n) == <<"c", ToString(n)>>

\* the state of the metadata path when no file is there
NoFile == [exists |-> FALSE, valid |-> TRUE, commit |-> <<>>, files |-> <<>>]

\* a metadata file that is not the JSON of a TranslationMeta: std::fs::write
\* creates (truncates) the file and then writes, so a write that fails after
\* the truncation leaves the file cut short
Truncated == [exists |-> TRUE, valid |-> FALSE, commit |-> <<>>, files |-> <<>>]

\* TranslationMeta { commit: "".to_string(), files: vec![] }
DefaultMeta == [commit |-> <<>>, files |-> <<>>]

\* serde_json::from_str of the file written by write_meta
from_str(file) == [commit |-> file.commit, files |-> file.files]

\* mutant: a file that cannot be parsed is read as if it were well formed
load_ok_always(file) == TRUE

\* the load of the metadata goes through: there is no file (the default is
\* taken), or read_to_string and serde_json::from_str both return Ok
load_ok(file) == ~file.exists \/ file.valid

\* mutant: the write leaves the file as it was
write_meta_nop(m, file) == file

\* write_meta: serialize and overwrite the metadata file
write_meta(m, file) ==
    [exists |-> TRUE, valid |-> TRUE, commit |-> m.commit, files |-> m.files]

\* for file in &meta.files { if file.path == *f && file.hash == *hash { ... break } }
RECURSIVE is_translated(_, _, _, _)
is_translated(fs, f, h, i) ==
    IF i > Len(fs) THEN FALSE
    ELSE IF fs[i].path = f /\ fs[i].hash = h THEN TRUE
    ELSE is_translated(fs, f, h, i + 1)

\* mutant: no entry ever matches
already_translated_never(fs, f, h) == FALSE

\* the value of `translated` after the lookup loop
already_translated(fs, f, h) == is_translated(fs, f, h, 1)

\* std::fs::write(path, content) on the translated tree; its directories are
\* made by create_dir_all right before and are not part of the state
fs_write(tree, path, content) == (path :> content) @@ tree

\* the pass-through loop: copy every file that is not in filtered_files
RECURSIVE mirror_loop(_, _, _, _, _)
mirror_loop(tree, fs, filtered, source, i) ==
    IF i > Len(fs) THEN tree
    ELSE IF fs[i] \notin Range(filtered)
         THEN mirror_loop(fs_write(tree, translated_path(fs[i]), source[fs[i]]),
                          fs, filtered, source, i + 1)
         ELSE mirror_loop(tree, fs, filtered, source, i + 1)

(***************************************************************************)
(* The run.                                                                *)
(***************************************************************************)

MaxRuns == 3
MaxEdits == 2

\* filter of the configuration: target "*.md", exclude ["draft", "txt"]
MainFilter ==
    [target  |-> <<"*", ".", "m", "d">>,
     include |-> <<>>,
     exclude |-> << <<"d", "r", "a", "f", "t">>, <<"t", "x", "t">> >>]

NoSummary == [printed |-> FALSE, new |-> 0, total |-> 0, already |-> 0]

NoStart == [out |-> <<>>, meta_file |-> NoFile]

\* no run is going on: the process holds nothing
Idle ==
    /\ meta = DefaultMeta
    /\ q = <<>>
    /\ suffix = <<>>
    /\ filtered_files = <<>>
    /\ idx = 1
    /\ hash = ""
    /\ translated_count = 0
    /\ summary = NoSummary
    /\ loaded = <<>>
    /\ calls = <<>>
    /\ skipped = <<>>
    /\ start = NoStart
    /\ write_log = <<>>

\* a fresh workspace after the clone: no metadata file, no translated tree
Fresh ==
    /\ src = [f \in SrcFiles |-> <<65>>]
    /\ dirs = Dirs
    /\ head = 1
    /\ out = <<>>
    /\ meta_file = NoFile
    /\ runs = 0
    /\ edits = 0
    /\ prev = [done |-> FALSE, src |-> [f \in SrcFiles |-> <<65>>], killed_at |-> <<>>]

Init ==
    /\ filter = MainFilter
    /\ Fresh
    /\ Idle
    /\ files = <<>>
    /\ pc = "idle"

NotRunning == pc = "idle"

\* an upstream commit changes one file of the work tree; the next pull brings it
Commit ==
    /\ NotRunning
    /\ edits < MaxEdits
    /\ \E f \in WorkFiles : \E c \in CommitContents(f) \ {src[f]} :
           src' = [src EXCEPT ![f] = c]
    /\ head' = head + 1
    /\ edits' = edits + 1
    /\ UNCHANGED <<filter, dirs, out, meta_file, meta, q, files, suffix,
                   filtered_files, idx, hash, translated_count, summary, pc,
                   runs, loaded, calls, skipped, prev, start, write_log>>

\* run(), up to the filter: sync, load the metadata, set the commit, walk the tree
StartRun ==
    /\ NotRunning
    /\ runs < MaxRuns
    /\ load_ok(meta_file)
    /\ runs' = runs + 1
    /\ start' = [out |-> out, meta_file |-> meta_file]
    /\ write_log' = <<>>
    /\ LET read == IF meta_file.exists THEN from_str(meta_file) ELSE DefaultMeta
       IN  /\ meta' = [read EXCEPT !.commit = rev_parse(head)]
           /\ loaded' = read.files
    /\ q' = <<>>
    /\ \E found \in (IF dirs = Dirs /\ DOMAIN src = SrcFiles
                       THEN walked_files
                       ELSE walk(dirs, DOMAIN src, <<repo_path>>, <<>>)) :
           files' = found
    /\ suffix' = <<>>
    /\ filtered_files' = <<>>
    /\ idx' = 1
    /\ hash' = ""
    /\ translated_count' = 0
    /\ summary' = NoSummary
    /\ calls' = <<>>
    /\ skipped' = <<>>
    /\ pc' = "filter"
    /\ UNCHANGED <<filter, src, dirs, head, out, meta_file, edits, prev>>

\* run() with a metadata file that cannot be read or parsed: after the sync
\* the error is printed and run returns
LoadFail ==
    /\ NotRunning
    /\ runs < MaxRuns
    /\ ~load_ok(meta_file)
    /\ runs' = runs + 1
    /\ start' = [out |-> out, meta_file |-> meta_file]
    /\ pc' = "returned"
    /\ UNCHANGED <<filter, src, dirs, head, out, meta_file, meta, q, files,
                   suffix, filtered_files, idx, hash, translated_count,
                   summary, edits, loaded, calls, skipped, prev, write_log>>

\* the filter: parse the target, then classify every file of the walk
FilterFiles ==
    /\ pc = "filter"
    /\ suffix' = prase_target_suffix(filter.target)
    /\ filtered_files' =
           filter_loop(files, prase_target_suffix(filter.target), filter.exclude, 1)
    /\ pc' = "mirror"
    /\ UNCHANGED <<filter, src, dirs, head, out, meta_file, meta, q, files,
                   idx, hash, translated_count, summary, runs, edits, loaded,
                   calls, skipped, prev, start, write_log>>

\* the copy loop over the files that are not in filtered_files
Mirror ==
    /\ pc = "mirror"
    /\ out' = mirror_loop(out, files, filtered_files, src, 1)
    /\ translated_count' = 0
    /\ idx' = 1
    /\ pc' = "loop"
    /\ UNCHANGED <<filter, src, dirs, head, meta_file, meta, q, files, suffix,
                   filtered_files, hash, summary, runs, edits, loaded, calls,
                   skipped, prev, start, write_log>>

InLoop == pc = "loop" /\ idx <= Len(filtered_files)

CurFile == filtered_files[idx]

CurHash == Sha256(src[CurFile])

\* the entry (path, hash) is in the metadata: count the file and go on
Skip ==
    /\ InLoop
    /\ already_translated(meta.files, CurFile, CurHash)
    /\ translated_count' = translated_count + 1
    /\ skipped' = Append(skipped, CurFile)
    /\ idx' = idx + 1
    /\ UNCHANGED <<filter, src, dirs, head, out, meta_file, meta, q, files,
                   suffix, filtered_files, hash, summary, pc, runs, edits,
                   loaded, calls, prev, start, write_log>>

\* std::fs::read_to_string(&f).unwrap() panics on a file that is not UTF-8
ReadPanic ==
    /\ InLoop
    /\ ~already_translated(meta.files, CurFile, CurHash)
    /\ ~is_utf8(src[CurFile])
    /\ pc' = "panicked"
    /\ UNCHANGED <<filter, src, dirs, head, out, meta_file, meta, q, files,
                   suffix, filtered_files, idx, hash, translated_count,
                   summary, runs, edits, loaded, calls, skipped, prev, start,
                   write_log>>

\* mutant: the empty file is copied but not counted
EmptyCopyUncounted ==
    /\ InLoop
    /\ ~already_translated(meta.files, CurFile, CurHash)
    /\ is_utf8(src[CurFile])
    /\ is_empty(src[CurFile])
    /\ out' = fs_write(out, translated_path(CurFile), src[CurFile])
    /\ idx' = idx + 1
    /\ UNCHANGED <<filter, src, dirs, head, meta_file, meta, q, files, suffix,
                   filtered_files, hash, translated_count, summary, pc, runs,
                   edits, loaded, calls, skipped, prev, start, write_log>>

\* if content.is_empty(): write the empty file, count it, continue
EmptyCopy ==
    /\ InLoop
    /\ ~already_translated(meta.files, CurFile, CurHash)
    /\ is_utf8(src[CurFile])
    /\ is_empty(src[CurFile])
    /\ out' = fs_write(out, translated_path(CurFile), src[CurFile])
    /\ translated_count' = translated_count + 1
    /\ idx' = idx + 1
    /\ UNCHANGED <<filter, src, dirs, head, meta_file, meta, q, files, suffix,
                   filtered_files, hash, summary, pc, runs, edits, loaded,
                   calls, skipped, prev, start, write_log>>

NeedsBackend ==
    /\ InLoop
    /\ ~already_translated(meta.files, CurFile, CurHash)
    /\ is_utf8(src[CurFile])
    /\ ~is_empty(src[CurFile])

\* agent_translate returns; the translated text is written to the output path
Translate ==
    /\ NeedsBackend
    /\ calls' = Append(calls, CurFile)
    /\ out' = fs_write(out, translated_path(CurFile), agent_translate(src[CurFile]))
    /\ hash' = CurHash
    /\ pc' = "record"
    /\ UNCHANGED <<filter, src, dirs, head, meta_file, meta, q, files, suffix,
                   filtered_files, idx, translated_count, summary, runs, edits,
                   loaded, skipped, prev, start, write_log>>

\* mutant: the output file is created before the reply is there
TranslatePanicAfterCreate ==
    /\ NeedsBackend
    /\ calls' = Append(calls, CurFile)
    /\ out' = fs_write(out, translated_path(CurFile), <<>>)
    /\ pc' = "panicked"
    /\ UNCHANGED <<filter, src, dirs, head, meta_file, meta, q, files, suffix,
                   filtered_files, idx, hash, translated_count, summary, runs,
                   edits, loaded, skipped, prev, start, write_log>>

\* agent_translate panics (key file, request or reply): the run is over
TranslatePanic ==
    /\ NeedsBackend
    /\ calls' = Append(calls, CurFile)
    /\ pc' = "panicked"
    /\ UNCHANGED <<filter, src, dirs, head, out, meta_file, meta, q, files,
                   suffix, filtered_files, idx, hash, translated_count,
                   summary, runs, edits, loaded, skipped, prev, start,
                   write_log>>

\* FileEntry { path, hash, translation_timestamp }; the clock is read in
\* units of runs
file_entry == [path |-> CurFile, hash |-> hash, translation_timestamp |-> runs]

\* mutant: the new entry takes the place of the older entries of its path
pushed_replacing ==
    [meta EXCEPT !.files = Append(SelectSeq(@, LAMBDA e : e.path # CurFile),
                                  file_entry)]

\* meta after meta.files.push(file_entry)
pushed == [meta EXCEPT !.files = Append(@, file_entry)]

\* meta.files.push(file_entry); write_meta(&meta, &meta_path);
Record ==
    /\ pc = "record"
    /\ meta' = pushed
    /\ meta_file' = write_meta(pushed, meta_file)
    /\ write_log' = Append(write_log, TRUE)
    /\ idx' = idx + 1
    /\ pc' = "loop"
    /\ UNCHANGED <<filter, src, dirs, head, out, q, files, suffix,
                   filtered_files, hash, translated_count, summary, runs,
                   edits, loaded, calls, skipped, prev, start>>

\* mutant: the entry whose write failed is dropped from the record in memory
RecordWriteFailForgets ==
    /\ pc = "record"
    /\ meta_file' \in {meta_file, Truncated}
    /\ write_log' = Append(write_log, FALSE)
    /\ idx' = idx + 1
    /\ pc' = "loop"
    /\ UNCHANGED <<filter, src, dirs, head, out, meta, q, files, suffix,
                   filtered_files, hash, translated_count, summary, runs,
                   edits, loaded, calls, skipped, prev, start>>

\* meta.files.push(file_entry); write_meta(&meta, &meta_path) where write_meta
\* fails: it prints the error and returns.  Serialization or opening the file
\* failed and the file is as before, or the write failed after the truncation
RecordWriteFail ==
    /\ pc = "record"
    /\ meta' = pushed
    /\ meta_file' \in {meta_file, Truncated}
    /\ write_log' = Append(write_log, FALSE)
    /\ idx' = idx + 1
    /\ pc' = "loop"
    /\ UNCHANGED <<filter, src, dirs, head, out, q, files, suffix,
                   filtered_files, hash, translated_count, summary, runs,
                   edits, loaded, calls, skipped, prev, start>>

\* the process is killed after the output file was written (line 301) and
\* before write_meta has returned (line 311).  write_meta is not one step:
\* std::fs::write opens the file truncating it, writes the text and closes,
\* so the kill finds the file as it was (before the open), cut short (after
\* the open, before the text is written) or whole, with the new entry (after
\* the text is written, before the return)
Kill ==
    /\ pc = "record"
    /\ meta_file' \in {meta_file, Truncated, write_meta(pushed, meta_file)}
    /\ pc' = "killed"
    /\ UNCHANGED <<filter, src, dirs, head, out, meta, q, files, suffix,
                   filtered_files, idx, hash, translated_count, summary, runs,
                   edits, loaded, calls, skipped, prev, start, write_log>>

\* the final println! of the counts
Summary ==
    /\ pc = "loop"
    /\ idx > Len(filtered_files)
    /\ summary' = [printed |-> TRUE,
                   new     |-> Len(filtered_files) - translated_count,
                   total   |-> Len(filtered_files),
                   already |-> translated_count]
    /\ pc' = "done"
    /\ UNCHANGED <<filter, src, dirs, head, out, meta_file, meta, q, files,
                   suffix, filtered_files, idx, hash, translated_count, runs,
                   edits, loaded, calls, skipped, prev, start, write_log>>

\* the process ends, after the summary, by an early return, by a panic or
\* killed from outside: its memory is gone
Exit ==
    /\ pc \in {"done", "returned", "panicked", "killed"}
    /\ prev' = [done |-> pc = "done", src |-> src,
                killed_at |-> IF pc = "killed" THEN CurFile ELSE <<>>]
    /\ start' = NoStart
    /\ write_log' = <<>>
    /\ meta' = DefaultMeta
    /\ q' = <<>>
    /\ files' = <<>>
    /\ suffix' = <<>>
    /\ filtered_files' = <<>>
    /\ idx' = 1
    /\ hash' = ""
    /\ translated_count' = 0
    /\ summary' = NoSummary
    /\ loaded' = <<>>
    /\ calls' = <<>>
    /\ skipped' = <<>>
    /\ pc' = "idle"
    /\ UNCHANGED <<filter, src, dirs, head, out, meta_file, runs, edits>>

Next ==
    \/ Commit
    \/ StartRun
    \/ FilterFiles
    \/ Mirror
    \/ Skip
    \/ ReadPanic
    \/ EmptyCopy
    \/ Translate
    \/ TranslatePanic
    \/ Record
    \/ Summary
    \/ Exit

Spec == Init /\ [][Next]_vars

(***************************************************************************)
(* Runs over one checkout, any of the bounded set, on a disk where writing *)
(* the metadata file can fail, which may leave a file that a later run     *)
(* cannot parse.                                                           *)
(***************************************************************************)

\* the checkouts: every file with one of the contents commits give it
Checkouts ==
    {s \in [SrcFiles -> Contents] :
        /\ s[GIT_C_MD] = <<65>>
        /\ \A f \in WorkFiles : s[f] \in CommitContents(f)}

InitWriteFail ==
    /\ filter = MainFilter
    /\ src \in Checkouts
    /\ dirs = Dirs
    /\ head = 1
    /\ out = <<>>
    /\ meta_file = NoFile
    /\ runs = 0
    /\ edits = 0
    /\ prev = [done |-> FALSE, src |-> src, killed_at |-> <<>>]
    /\ Idle
    /\ files = <<>>
    /\ pc = "idle"

NextWriteFail ==
    \/ StartRun
    \/ LoadFail
    \/ FilterFiles
    \/ Mirror
    \/ Skip
    \/ ReadPanic
    \/ EmptyCopy
    \/ Translate
    \/ TranslatePanic
    \/ Record
    \/ RecordWriteFail
    \/ Summary
    \/ Exit

SpecWriteFail == InitWriteFail /\ [][NextWriteFail]_vars

(***************************************************************************)
(* The run on a machine where the process can be killed between the write  *)
(* of an output file and the return of the write of the metadata.          *)
(***************************************************************************)

NextKill ==
    \/ Commit
    \/ StartRun
    \/ LoadFail
    \/ FilterFiles
    \/ Mirror
    \/ Skip
    \/ ReadPanic
    \/ EmptyCopy
    \/ Translate
    \/ TranslatePanic
    \/ Record
    \/ Kill
    \/ Summary
    \/ Exit

SpecKill == Init /\ [][NextKill]_vars

(***************************************************************************)
(* The tree walk on its own, step by step, over a bounded set of trees.    *)
(***************************************************************************)

X_GIT == InRepo(<<"x", ".", "g", "i", "t">>)
X_GIT_F == X_GIT \o <<"/", "f">>
SUB == InRepo(<<"s">>)
SUB_F == SUB \o <<"/", "f">>
SUB_GIT == SUB \o <<"/", ".", "g", "i", "t">>
SUB_GIT_F == SUB_GIT \o <<"/", "f">>

\* the paths that may be directories and the paths that may be files; s/.git
\* may be either
WalkDirs == {X_GIT, DOT_GIT, SUB, SUB_GIT}
WalkFiles == {A_MD, X_GIT_F, GIT_C_MD, SUB_F, SUB_GIT_F, SUB_GIT}

\* the trees: the root is a directory, nothing is both a directory and a file,
\* and every entry lies in a directory of the tree
WalkTrees ==
    {tr \in [dirs : {D \cup {repo_path} : D \in SUBSET WalkDirs},
             files : SUBSET WalkFiles] :
        /\ tr.dirs \cap tr.files = {}
        /\ \A p \in (tr.dirs \cup tr.files) \ {repo_path} : dir_of(p) \in tr.dirs}

\* run() at line 202 on a fresh workspace: the walk is about to start
InitWalk ==
    /\ filter = MainFilter
    /\ \E tr \in WalkTrees :
           /\ dirs = tr.dirs
           /\ src = [f \in tr.files |-> <<65>>]
           /\ prev = [done |-> FALSE, src |-> [f \in tr.files |-> <<65>>],
                      killed_at |-> <<>>]
    /\ head = 1
    /\ out = <<>>
    /\ meta_file = NoFile
    /\ runs = 1
    /\ edits = 0
    /\ meta = [DefaultMeta EXCEPT !.commit = rev_parse(1)]
    /\ q = <<repo_path>>
    /\ files = <<>>
    /\ suffix = <<>>
    /\ filtered_files = <<>>
    /\ idx = 1
    /\ hash = ""
    /\ translated_count = 0
    /\ summary = NoSummary
    /\ loaded = <<>>
    /\ calls = <<>>
    /\ skipped = <<>>
    /\ start = NoStart
    /\ write_log = <<>>
    /\ pc = "walk"

\* one iteration of `while !q.is_empty()`
WalkStep ==
    /\ pc = "walk"
    /\ q # <<>>
    /\ \E entries \in Orders(read_dir(dirs, DOMAIN src, q[Len(q)])) :
           /\ q' = walk_step(dirs, q, files, entries)[1]
           /\ files' = walk_step(dirs, q, files, entries)[2]
    /\ UNCHANGED <<filter, src, dirs, head, out, meta_file, meta, suffix,
                   filtered_files, idx, hash, translated_count, summary, pc,
                   runs, edits, loaded, calls, skipped, prev, start,
                   write_log>>

\* q is empty: the loop is left and the filter comes next
WalkEnd ==
    /\ pc = "walk"
    /\ q = <<>>
    /\ pc' = "filter"
    /\ UNCHANGED <<filter, src, dirs, head, out, meta_file, meta, q, files,
                   suffix, filtered_files, idx, hash, translated_count,
                   summary, runs, edits, loaded, calls, skipped, prev, start,
                   write_log>>

NextWalk ==
    \/ WalkStep
    \/ WalkEnd

\* the loop is sequential code: it always takes its next step
SpecWalk == InitWalk /\ [][NextWalk]_vars /\ WF_vars(NextWalk)

(***************************************************************************)
(* The filter on its own: targets, exclude lists and paths from bounded    *)
(* sets, classified by the filter step of the run.                         *)
(***************************************************************************)

MaxTargetLen == 4

TargetChars == {"*", ".", " ", "\t", "m", "d"}

SeqsUpTo(S, n) == UNION {[1..k -> S] : k \in 0..n}

MD == <<"m", "d">>
TXT == <<"t", "x", "t">>
STAR_MD == <<"*", ".", "m", "d">>
STAR_TXT == <<"*", ".", "t", "x", "t">>

\* every short target, and "*.md *.txt" with one and with two spaces
Targets ==
    SeqsUpTo(TargetChars, MaxTargetLen)
        \cup {STAR_MD \o <<" ">> \o STAR_TXT, STAR_MD \o <<" ", " ">> \o STAR_TXT}

ExcludeLists ==
    { <<>>,
      << <<"d", "r", "a", "f", "t">> >>,
      << <<"x">>, <<"d", "r", "a", "f", "t">> >>,
      << <<>> >> }

IncludeLists == { <<>>, <<MD>> }

N_XMD == InRepo(<<"n", ".", "x", "m", "d">>)
N_MDX == InRepo(<<"n", ".", "m", "d", "x">>)
B_TXT == InRepo(<<"b", ".", "t", "x", "t">>)

\* the list of files the filter is given
ProbeFiles == <<A_MD, N_XMD, N_MDX, DRAFT_C_MD, B_TXT>>

InitFilter ==
    /\ filter \in [target : Targets, include : IncludeLists, exclude : ExcludeLists]
    /\ Fresh
    /\ Idle
    /\ files = ProbeFiles
    /\ pc = "filter"

NextFilter == FilterFiles

SpecFilter == InitFilter /\ [][NextFilter]_vars

(***************************************************************************)
(* Properties.                                                             *)
(***************************************************************************)

\* t is the text of s from some position to its end
IsSuffixOf(t, s) ==
    /\ Len(t) <= Len(s)
    /\ \A k \in 1..Len(t) : s[Len(s) - Len(t) + k] = t[k]

\* e is the text of s between two positions
IsSubstringOf(e, s) ==
    \E i \in 0..(Len(s) - Len(e)) : \A k \in 1..Len(e) : s[i + k] = e[k]

Matches(f) == \E i \in DOMAIN suffix : IsSuffixOf(suffix[i], f)

Excluded(f) == \E i \in DOMAIN filter.exclude : IsSubstringOf(filter.exclude[i], f)

Filtered == pc \in {"mirror", "loop", "record", "done", "panicked"}

\* C9: once the filter has run, a discovered file is in filtered_files if and
\* only if its path ends with a suffix token and contains no exclude string;
\* every other file is pass-through; filtered_files keeps the walk's order and
\* holds no file twice; with the single token md and nothing excluded, n.xmd
\* is translatable and n.mdx is not; filter.include plays no part.
FilterClassification ==
    Filtered =>
        /\ \A i \in DOMAIN files :
              (files[i] \in Range(filtered_files))
                  <=> (Matches(files[i]) /\ ~Excluded(files[i]))
        /\ Range(filtered_files) \subseteq Range(files)
        /\ Len(filtered_files) = Cardinality(Range(filtered_files))
        /\ \A i, j \in DOMAIN filtered_files :
              i < j => \E k, l \in DOMAIN files :
                          k < l /\ files[k] = filtered_files[i]
                                /\ files[l] = filtered_files[j]
        /\ (suffix = <<MD>> /\ filter.exclude = <<>> /\ files = ProbeFiles)
              => (N_XMD \in Range(filtered_files) /\ N_MDX \notin Range(filtered_files))

\* C9 witness: target "*.md", a non-empty include list, "draft" excluded
FilterClassificationWitness ==
    /\ pc = "mirror"
    /\ filter.target = STAR_MD
    /\ filter.include = <<MD>>
    /\ filter.exclude = << <<"d", "r", "a", "f", "t">> >>
    /\ filtered_files = <<A_MD, N_XMD>>
    /\ N_MDX \in Range(files)
    /\ DRAFT_C_MD \in Range(files)

IsSpace(c) == c \in {" ", "\t"}

\* the maximal runs of characters of s that are not whitespace, in order
RECURSIVE words_from(_, _, _)
words_from(s, i, cur) ==
    LET done == IF cur = <<>> THEN <<>> ELSE <<cur>>
    IN  IF i > Len(s) THEN done
        ELSE IF IsSpace(s[i]) THEN done \o words_from(s, i + 1, <<>>)
        ELSE words_from(s, i + 1, Append(cur, s[i]))

Words(s) == words_from(s, 1, <<>>)

Stripped(target) == SelectSeq(target, LAMBDA c : c \notin {"*", "."})

\* C10: the suffix tokens are the whitespace-separated words of the target
\* without its "*" and "." characters, and none of them is empty.
TargetParsing ==
    Filtered =>
        /\ suffix = Words(Stripped(filter.target))
        /\ \A i \in DOMAIN suffix : suffix[i] # <<>>

HasPath(fs, f) == \E i \in DOMAIN fs : fs[i].path = f

HasEntry(fs, f, h) == \E i \in DOMAIN fs : fs[i].path = f /\ fs[i].hash = h

\* the path and hash of every entry of a file list, in order
Keys(fs) == [i \in DOMAIN fs |-> [path |-> fs[i].path, hash |-> fs[i].hash]]

\* the entries a run would record for a list of files, in order
KeysOf(fl) == [i \in DOMAIN fl |-> [path |-> fl[i], hash |-> Sha256(src[fl[i]])]]

\* the source root prefix of f replaced by the output root
OutputPath(f) == translated_repo_path \o SubSeq(f, Len(repo_path) + 1, Len(f))

\* the previous run completed and no source file changed since
SourcesUnchanged == prev.done /\ prev.src = src

\* C1: in a run that follows a completed run with every source file unchanged,
\* the backend is never called, no FileEntry is appended in memory or on disk,
\* the run does not panic, and its summary counts every translatable file as
\* already translated.
Idempotence ==
    (pc # "idle" /\ SourcesUnchanged) =>
        /\ calls = <<>>
        /\ pc \notin {"record", "panicked"}
        /\ meta.files = loaded
        /\ meta_file.files = loaded
        /\ pc = "done" =>
              /\ summary.new = 0
              /\ summary.already = Len(filtered_files)
              /\ summary.total = Len(filtered_files)

\* C1 witness: a second run over unchanged sources ends, both files skipped
IdempotenceWitness ==
    /\ pc = "done"
    /\ SourcesUnchanged
    /\ runs = 2
    /\ Len(filtered_files) = 2
    /\ Len(skipped) = 2
    /\ Len(loaded) = 2

\* the files whose bytes differ from what the previous run found
Changed == {f \in SrcFiles : prev.src[f] # src[f]}

\* C2: when exactly one translatable file changed since the previous completed
\* run, the run that ends did not skip that file as already translated, and
\* called the backend for no other file.
ChangeDetection ==
    (pc = "done" /\ prev.done) =>
        \A f \in Range(filtered_files) :
            Changed = {f} => (f \notin Range(skipped) /\ Range(calls) \subseteq {f})

\* the run ended by the panic of the backend call for the file at idx
TranslationFailed ==
    /\ pc = "panicked"
    /\ calls # <<>>
    /\ calls[Len(calls)] = filtered_files[idx]

\* the translatable files handled before the one at idx
FirstN == SubSeq(filtered_files, 1, idx - 1)

\* C3, as claimed: after the failure of the call for file N+1 in a run that
\* loaded no entry, the file on disk holds one entry for each of the first N
\* translatable files, with its path and hash.
MetadataDurabilityAllFiles ==
    (TranslationFailed /\ loaded = <<>>) => Keys(meta_file.files) = KeysOf(FirstN)

\* C3, amended: the file on disk holds one entry, with path and hash and in
\* processing order, for each of the first N translatable files that is not
\* empty, and none for the empty ones.
MetadataDurability ==
    (TranslationFailed /\ loaded = <<>>) =>
        Keys(meta_file.files) = KeysOf(SelectSeq(FirstN, LAMBDA f : src[f] # <<>>))

\* C3 witness: the first file was translated and recorded, the second call failed
MetadataDurabilityWitness ==
    /\ TranslationFailed
    /\ loaded = <<>>
    /\ idx = 2
    /\ src[filtered_files[1]] # <<>>
    /\ Len(meta_file.files) = 1

EmptyHash == Sha256(<<>>)

\* C4, as claimed: after a completed run an empty translatable file has an empty
\* output file and an entry with its path and the hash of the empty input.
EmptyFileRecorded ==
    pc = "done" =>
        \A f \in Range(filtered_files) :
            src[f] = <<>> =>
                /\ OutputPath(f) \in DOMAIN out
                /\ out[OutputPath(f)] = <<>>
                /\ HasEntry(meta_file.files, f, EmptyHash)

\* C4, amended: after a completed run an empty translatable file has an empty
\* output file; the backend was not called for it, the run appended no entry
\* for it, no entry with the hash of the empty input is in the metadata, and
\* the summary counts it as already translated.
EmptyFileCopied ==
    pc = "done" =>
        /\ \A f \in Range(filtered_files) :
              src[f] = <<>> =>
                  /\ OutputPath(f) \in DOMAIN out
                  /\ out[OutputPath(f)] = <<>>
                  /\ f \notin Range(calls)
                  /\ f \notin Range(skipped)
                  /\ \A i \in (Len(loaded) + 1)..Len(meta.files) :
                        meta.files[i].path # f
                  /\ ~HasEntry(meta.files, f, EmptyHash)
                  /\ ~HasEntry(meta_file.files, f, EmptyHash)
        /\ summary.already =
              Len(skipped)
                  + Cardinality({f \in Range(filtered_files) : src[f] = <<>>})

\* C4 witness: a.md was translated by an earlier run, is empty now, and the run
\* that ends has written the empty file over its translation
EmptyFileCopiedWitness ==
    /\ pc = "done"
    /\ A_MD \in Range(filtered_files)
    /\ src[A_MD] = <<>>
    /\ HasPath(loaded, A_MD)
    /\ out[OutputPath(A_MD)] = <<>>

\* C5: the file list on disk never holds two entries with the same path.
OneEntryPerPath ==
    \A i, j \in DOMAIN meta_file.files :
        meta_file.files[i].path = meta_file.files[j].path => i = j

\* C6: at the final summary the metadata file exists and holds the in-memory
\* record: the same file list and the commit resolved in this run.
EndOfRunPersist ==
    pc = "done" =>
        /\ meta.commit = rev_parse(head)
        /\ meta_file.exists
        /\ meta_file.commit = meta.commit
        /\ meta_file.files = meta.files

\* C7: after a completed run every discovered file that is not translatable has
\* its bytes at the path with the source root prefix replaced by the output
\* root, and no FileEntry.
PassThroughFidelity ==
    pc = "done" =>
        \A f \in Range(files) \ Range(filtered_files) :
            /\ OutputPath(f) \in DOMAIN out
            /\ out[OutputPath(f)] = src[f]
            /\ ~HasPath(meta.files, f)
            /\ ~HasPath(meta_file.files, f)

\* C8: a file whose path contains an exclude string is never translatable, the
\* backend is never called for it, no entry of its path is ever in the metadata
\* in memory or on disk, and once the mirror step is over its bytes are at the
\* output path the run computes for it.
Exclusion ==
    /\ \A f \in SrcFiles :
          Excluded(f) =>
              /\ f \notin Range(filtered_files)
              /\ f \notin Range(calls)
              /\ ~HasPath(meta.files, f)
              /\ ~HasPath(meta_file.files, f)
    /\ pc \in {"loop", "record", "done", "panicked"} =>
          \A f \in Range(files) :
              Excluded(f) =>
                  LET copy == translated_path(f)
                  IN  copy \in DOMAIN out /\ out[copy] = src[f]

\* C8 witness: after a commit changed draft/c.md, which ends with the token md,
\* a later run has copied it; the excluded b.txt does not end with a token
ExclusionWitness ==
    /\ pc = "done"
    /\ runs = 2
    /\ Excluded(DRAFT_C_MD) /\ Matches(DRAFT_C_MD)
    /\ Excluded(NESTED_B_TXT) /\ ~Matches(NESTED_B_TXT)
    /\ src[DRAFT_C_MD] = <<255>>
    /\ out[translated_path(DRAFT_C_MD)] = <<255>>
    /\ calls # <<>>

\* the run in progress found a metadata file it could not read or parse
MalformedAtStart == pc # "idle" /\ start.meta_file.exists /\ ~start.meta_file.valid

\* C11: a run that finds a metadata file it cannot read or parse returns before
\* any file is processed: nothing is walked or filtered, the backend is not
\* called, no file is looked up, nothing is recorded, the translated tree and
\* the metadata file are as the run found them, and no summary is printed.
MalformedMetadataFatal ==
    MalformedAtStart =>
        /\ pc = "returned"
        /\ files = <<>>
        /\ filtered_files = <<>>
        /\ calls = <<>>
        /\ skipped = <<>>
        /\ write_log = <<>>
        /\ meta = DefaultMeta
        /\ out = start.out
        /\ meta_file = start.meta_file
        /\ ~summary.printed

\* C11 witness: a run returned on the file a failed write had cut short, with a
\* translated tree of an earlier run in place and a file that is not translated
MalformedMetadataFatalWitness ==
    /\ pc = "returned"
    /\ meta_file = Truncated
    /\ translated_path(A_MD) \in DOMAIN out
    /\ translated_path(D_MD) \notin DOMAIN out
    /\ src[D_MD] = <<65>>

\* C12: whenever a run has skipped a translatable file as already translated,
\* the file's output file exists and holds the translation of the content the
\* file has now.
SkipImpliesUpToDate ==
    \A i \in DOMAIN skipped :
        LET copy == translated_path(skipped[i])
        IN  copy \in DOMAIN out /\ out[copy] = agent_translate(src[skipped[i]])

\* the output file of f is as the run found it
Untouched(f) ==
    LET copy == translated_path(f)
    IN  IF copy \in DOMAIN start.out
        THEN copy \in DOMAIN out /\ out[copy] = start.out[copy]
        ELSE copy \notin DOMAIN out

\* C13: when the backend call for a file fails the run is over with no summary;
\* the failed file and every later translatable file have their output files
\* as the run found them, no later file was looked up or sent to the backend,
\* every entry the run appended is of a file before the failed one, and the
\* metadata file is what the last write_meta of the run wrote, or, if the run
\* wrote none, what the run found.
AbortOnTranslationFailure ==
    TranslationFailed =>
        /\ ~summary.printed
        /\ \A k \in idx..Len(filtered_files) : Untouched(filtered_files[k])
        /\ \A k \in (idx + 1)..Len(filtered_files) :
              /\ filtered_files[k] \notin Range(calls)
              /\ filtered_files[k] \notin Range(skipped)
        /\ \A k \in (Len(loaded) + 1)..Len(meta.files) :
              meta.files[k].path \in Range(FirstN)
        /\ Len(meta.files) = Len(loaded) + Len(write_log)
        /\ IF write_log = <<>>
           THEN meta_file = start.meta_file
           ELSE meta_file.exists /\ from_str(meta_file) = meta

\* C13 witness: the call for the first of two translatable files failed in a
\* run that found the outputs and the metadata of an earlier run
AbortOnTranslationFailureWitness ==
    /\ TranslationFailed
    /\ idx = 1
    /\ Len(filtered_files) = 2
    /\ start.meta_file.exists
    /\ translated_path(filtered_files[1]) \in DOMAIN out
    /\ translated_path(filtered_files[2]) \in DOMAIN out

\* the previous run was killed at a file that has the same content now, and
\* the kill came before the file's entry was on disk: the metadata file the
\* run in progress found holds no entry with the file's path and hash
KilledAtUnchanged ==
    /\ prev.killed_at # <<>>
    /\ src[prev.killed_at] = prev.src[prev.killed_at]
    /\ ~HasEntry(start.meta_file.files, prev.killed_at, Sha256(src[prev.killed_at]))

\* the sync loop of the run in progress is past the file f
Handled(f) ==
    \E k \in DOMAIN filtered_files :
        /\ filtered_files[k] = f
        /\ \/ k < idx
           \/ k = idx /\ pc \in {"record", "killed", "panicked"}

\* C14: in the run that follows a run killed between the output write and the
\* metadata write of a file, with that file unchanged, the file is not skipped
\* as already translated, once the sync loop is past it the backend has been
\* called for it, and the run does not return or end with its summary without
\* that call.
RetranslateAfterKill ==
    (pc # "idle" /\ KilledAtUnchanged) =>
        /\ prev.killed_at \notin Range(skipped)
        /\ Handled(prev.killed_at) => prev.killed_at \in Range(calls)
        /\ pc \in {"done", "returned"} => prev.killed_at \in Range(calls)

\* the sync loop of the run in progress has been entered
InSyncLoop == pc \in {"loop", "record", "done", "panicked", "killed"}

\* C15: a failed metadata write does not end the run and loses nothing in
\* memory: the record in memory is the loaded list followed by one entry for
\* each backend call that returned, in call order, whether its write failed or
\* not; a panic comes only from a failed backend call or an undecodable file;
\* and right after a write that succeeded the file on disk holds the commit and
\* every entry of the record in memory.
WriteFailureNotLossy ==
    InSyncLoop =>
        /\ Len(meta.files) = Len(loaded) + Len(write_log)
        /\ \A k \in DOMAIN loaded : meta.files[k] = loaded[k]
        /\ \A k \in DOMAIN write_log :
              /\ meta.files[Len(loaded) + k].path = calls[k]
              /\ meta.files[Len(loaded) + k].hash = Sha256(src[calls[k]])
        /\ pc = "panicked" =>
              TranslationFailed \/ ~is_utf8(src[filtered_files[idx]])
        /\ (write_log # <<>> /\ write_log[Len(write_log)]) =>
              /\ meta_file.exists /\ meta_file.valid
              /\ from_str(meta_file) = meta

\* C15 witness: a first run ended with its summary; the write of the first entry
\* failed, the write of the second succeeded and put both entries on disk
WriteFailureNotLossyWitness ==
    /\ pc = "done"
    /\ summary.printed
    /\ summary.new = 2
    /\ loaded = <<>>
    /\ write_log = <<FALSE, TRUE>>
    /\ Len(meta_file.files) = 2

\* the list s is the beginning of the list t
IsPrefixOf(s, t) == Len(s) <= Len(t) /\ \A k \in DOMAIN s : t[k] = s[k]

\* C16: at every point of a run the list the run loaded is the beginning of the
\* list in memory and of the list on disk, and no step of any run or of the
\* environment takes an entry off the disk or changes one: the list on disk
\* before a step is the beginning of the list after it.
AppendOnlyMetadata ==
    /\ [](/\ IsPrefixOf(loaded, meta.files)
          /\ pc # "idle" => IsPrefixOf(loaded, meta_file.files)
          /\ IsPrefixOf(meta_file.files, meta.files) \/ pc = "idle")
    /\ [][/\ IsPrefixOf(meta_file.files, meta_file'.files)
          /\ meta_file.exists => meta_file'.exists]_vars

\* C16 witness: a run that loaded entries has appended, in memory and on disk,
\* a second entry for a path that is in the loaded list
AppendOnlyMetadataWitness ==
    /\ pc = "loop"
    /\ loaded # <<>>
    /\ Len(meta_file.files) > Len(loaded)
    /\ meta_file.files = meta.files
    /\ HasPath(loaded, meta.files[Len(meta.files)].path)

\* C17: in the summary of a run that ends, new + already = total, total is the
\* number of translatable files, and new is the number of files the backend was
\* called for, which is the number of entries the run appended to the record in
\* memory and to the file on disk.
SummaryCounts ==
    pc = "done" =>
        /\ summary.printed
        /\ summary.new + summary.already = summary.total
        /\ summary.total = Len(filtered_files)
        /\ summary.new = Len(calls)
        /\ summary.new = Len(meta.files) - Len(loaded)
        /\ summary.new = Len(meta_file.files) - Len(start.meta_file.files)
        /\ summary.already = Len(skipped) + Cardinality({f \in Range(filtered_files) :
                                 f \notin Range(skipped) /\ f \notin Range(calls)})

\* C17 witness: a run that loaded entries ended with one file translated and
\* one empty file copied, which counts as already translated: new = 1,
\* already = 1
SummaryCountsWitness ==
    /\ pc = "done"
    /\ summary.new = 1
    /\ summary.already = 1
    /\ loaded # <<>>
    /\ skipped = <<>>
    /\ Len(calls) = 1
    /\ \E f \in Range(filtered_files) : src[f] = <<>> /\ f \notin Range(skipped)

\* d is a directory on the way from the root to f
IsAbove(d, f) ==
    /\ Len(d) < Len(f)
    /\ f[Len(d) + 1] = "/"
    /\ \A k \in DOMAIN d : f[k] = d[k]

\* f lies, at any depth, in a directory whose name is exactly ".git"
UnderGit(f) ==
    \E d \in dirs : IsAbove(d, f) /\ filename(d) = <<".", "g", "i", "t">>

\* C18: on every tree the walk ends; no path is ever in the list twice, nothing
\* but files of the tree is in it, and when the walk has ended the list holds
\* exactly the files that are not under a directory named ".git", those of a
\* directory "x.git" included, and is one of the lists the run's walk yields.
TreeWalk ==
    /\ <>(pc = "filter")
    /\ [](/\ Len(files) = Cardinality(Range(files))
          /\ Range(files) \subseteq {f \in DOMAIN src : ~UnderGit(f)}
          /\ pc = "filter" =>
                /\ q = <<>>
                /\ Range(files) = {f \in DOMAIN src : ~UnderGit(f)}
                /\ files \in walk(dirs, DOMAIN src, <<repo_path>>, <<>>))

\* C18 witness: the walk has ended on a tree with .git, x.git/f, s/f and
\* s/.git/f: the files of x.git and s are in the list, those of s/.git are not
TreeWalkWitness ==
    /\ pc = "filter"
    /\ q = <<>>
    /\ DOT_GIT \in dirs /\ GIT_C_MD \in DOMAIN src
    /\ SUB_GIT \in dirs /\ SUB_GIT_F \in DOMAIN src
    /\ {A_MD, X_GIT_F, SUB_F} \subseteq Range(files)
    /\ SUB_GIT_F \notin Range(files)
    /\ GIT_C_MD \notin Range(files)

====
